---- MODULE Spec2Model ----
(***************************************************************************)
(* Model of the MangaDexMigration scripts.                                 *)
(*                                                                         *)
(*   manga_compare.py : normalize_title, read_library_titles,              *)
(*                      read_csv_titles, find_matching_titles, main        *)
(*   manga_parser.py  : parse_manga_file, save_to_library,                 *)
(*                      archive_processed_files, main                      *)
(*                                                                         *)
(* A Python str is a sequence of characters; a character is a one-letter   *)
(* TLA+ string, except U+2022 (the bullet), written "U+2022".  A Python    *)
(* dict is a sequence of entries in insertion order.                       *)
(***************************************************************************)
EXTENDS Integers, Sequences, FiniteSets, TLC

VARIABLES
    \* normalize_title applied to a title, and to its own result
    title, key, key2, npc,
    \* manga_compare.main: the two input files, the dicts the loaders build,
    \* the loaders' loop positions, and the state of find_matching_titles
    library_file, csv_file, library_titles, current_main_title, li,
    csv_titles, ri, matches, processed_matches, mi, pc,
    \* manga_parser.main: the files it works on (mangas.json, the other
    \* *copy*.json files of the directory, the archives directory,
    \* my_library.txt), what it parsed, what save_to_library returned, the
    \* error archive_processed_files printed, and its position
    mangas_json, cwd_copies, archive_dir, archives, my_library,
    manga_entries, saved, archive_error, ppc

nvars == <<title, key, key2, npc>>
cvars == <<library_file, csv_file, library_titles, current_main_title, li,
           csv_titles, ri, matches, processed_matches, mi, pc>>
pvars == <<mangas_json, cwd_copies, archive_dir, archives, my_library,
           manga_entries, saved, archive_error, ppc>>
vars == <<nvars, cvars, pvars>>

\* None, where a str may stand: no str has a character of that name
None == <<"None">>

\* A file: whether open() finds it, and its lines (its rows, for the CSV file)
File(ls) == [found |-> TRUE, lines |-> ls]
NoFile == [found |-> FALSE, lines |-> <<>>]

\* The variables of a part of the program that a specification does not run
NormIdle ==
    /\ title = <<>>
    /\ key = None
    /\ key2 = None
    /\ npc = "idle"

CmpIdle ==
    /\ library_file = NoFile
    /\ csv_file = NoFile
    /\ library_titles = <<>>
    /\ current_main_title = None
    /\ li = 0
    /\ csv_titles = <<>>
    /\ ri = 0
    /\ matches = <<>>
    /\ processed_matches = {}
    /\ mi = 0
    /\ pc = "idle"

ParIdle ==
    /\ mangas_json = [kind |-> "missing", data |-> <<>>]
    /\ cwd_copies = {}
    /\ archive_dir = FALSE
    /\ archives = {}
    /\ my_library = <<>>
    /\ manga_entries = <<>>
    /\ saved = "None"
    /\ archive_error = FALSE
    /\ ppc = "idle"

(***************************************************************************)
(* Characters and the str methods the scripts use.                         *)
(***************************************************************************)
Bullet == "U+2022"

UpperCase == <<"A","B","C","D","E","F","G","H","I","J","K","L","M",
               "N","O","P","Q","R","S","T","U","V","W","X","Y","Z">>

LowerCase == <<"a","b","c","d","e","f","g","h","i","j","k","l","m",
               "n","o","p","q","r","s","t","u","v","w","x","y","z">>

\* The characters of the model in code point order: str comparison (sorted)
\* compares code points.
CharTable == <<"\t", "\n", " ", ",", ":">> \o UpperCase \o LowerCase \o <<Bullet>>

Ord(c) == CHOOSE i \in 1..Len(CharTable) : CharTable[i] = c

IsSpace(c) == c \in {" ", "\t", "\n"}

LowerChar(c) ==
    IF \E i \in 1..Len(UpperCase) : UpperCase[i] = c
    THEN LowerCase[CHOOSE i \in 1..Len(UpperCase) : UpperCase[i] = c]
    ELSE c

lower(s) == [i \in 1..Len(s) |-> LowerChar(s[i])]

RECURSIVE lstrip(_)
lstrip(s) == IF s # <<>> /\ IsSpace(Head(s)) THEN lstrip(Tail(s)) ELSE s

RECURSIVE rstrip(_)
rstrip(s) ==
    IF s # <<>> /\ IsSpace(s[Len(s)]) THEN rstrip(SubSeq(s, 1, Len(s) - 1)) ELSE s

strip(s) == rstrip(lstrip(s))

startswith(s, p) == Len(s) >= Len(p) /\ SubSeq(s, 1, Len(p)) = p

\* s[n:]
SliceFrom(s, n) == SubSeq(s, n + 1, Len(s))

\* s < t for two str
RECURSIVE StrLess(_, _)
StrLess(s, t) ==
    IF t = <<>> THEN FALSE
    ELSE IF s = <<>> THEN TRUE
    ELSE IF Head(s) = Head(t) THEN StrLess(Tail(s), Tail(t))
    ELSE Ord(Head(s)) < Ord(Head(t))

\* sorted(S) for a set of str
RECURSIVE sorted(_)
sorted(S) ==
    IF S = {} THEN <<>>
    ELSE LET m == CHOOSE x \in S : \A y \in S \ {x} : StrLess(x, y)
         IN <<m>> \o sorted(S \ {m})

\* The elements of a list
Range(s) == {s[i] : i \in 1..Len(s)}

(***************************************************************************)
(* normalize_title                                                         *)
(***************************************************************************)
ArtThe == <<"t","h","e"," ">>
ArtA == <<"a"," ">>
ArtAn == <<"a","n"," ">>

\* A slip in the third literal: "an" without its space.
normalize_title_an_nospace(t) ==
    LET s == strip(lower(t))
    IN IF startswith(s, ArtThe) THEN SliceFrom(s, 4)
       ELSE IF startswith(s, ArtA) THEN SliceFrom(s, 2)
       ELSE IF startswith(s, <<"a","n">>) THEN SliceFrom(s, 3)
       ELSE s

\* The elif chain written as three independent ifs.
normalize_title_if_chain(t) ==
    LET s == strip(lower(t))
        s1 == IF startswith(s, ArtThe) THEN SliceFrom(s, 4) ELSE s
        s2 == IF startswith(s1, ArtA) THEN SliceFrom(s1, 2) ELSE s1
    IN IF startswith(s2, ArtAn) THEN SliceFrom(s2, 3) ELSE s2

normalize_title(t) ==
    LET s == strip(lower(t))
    IN IF startswith(s, ArtThe) THEN SliceFrom(s, 4)
       ELSE IF startswith(s, ArtA) THEN SliceFrom(s, 2)
       ELSE IF startswith(s, ArtAn) THEN SliceFrom(s, 3)
       ELSE s

(***************************************************************************)
(* dict: a sequence of entries [norm, original, alt_titles] in insertion   *)
(* order.  Assigning to a key that is present keeps the key's position.    *)
(***************************************************************************)
Entry(n, o, a) == [norm |-> n, original |-> o, alt_titles |-> a]

DictHas(d, k) == \E i \in 1..Len(d) : d[i].norm = k

DictIndex(d, k) == CHOOSE i \in 1..Len(d) : d[i].norm = k

\* d[k] = {'original': o, 'alt_titles': a}
DictSet(d, k, o, a) ==
    IF DictHas(d, k)
    THEN [d EXCEPT ![DictIndex(d, k)] = Entry(k, o, a)]
    ELSE Append(d, Entry(k, o, a))

\* s.replace(old, '')
RECURSIVE remove(_, _)
remove(s, old) ==
    IF Len(s) < Len(old) THEN s
    ELSE IF startswith(s, old) THEN remove(SliceFrom(s, Len(old)), old)
    ELSE <<Head(s)>> \o remove(Tail(s), old)

(***************************************************************************)
(* read_library_titles: the body of its loop over the lines of the file.   *)
(***************************************************************************)
MainPrefix == <<"M","a","i","n"," ","T","i","t","l","e",":">>
BulletPrefix == <<" ", " ", Bullet, " ">>

\* The line taken as it is read, without line.strip().
stripped_line_raw(raw) == raw

\* line = line.strip()
stripped_line(raw) == strip(raw)

\* One iteration: st = [titles, current_main_title], raw the line read.
library_line(st, raw) ==
    LET line == stripped_line(raw)
        cmt == st.current_main_title
    IN IF startswith(line, MainPrefix)
       THEN LET main == strip(remove(line, MainPrefix))
            IN [titles |-> DictSet(st.titles, normalize_title(main), main, <<>>),
                current_main_title |-> main]
       ELSE IF startswith(line, BulletPrefix) /\ cmt \notin {None, <<>>}
       THEN LET alt_title == strip(remove(line, BulletPrefix))
                im == DictIndex(st.titles, normalize_title(cmt))
                t1 == IF alt_title # cmt
                         /\ alt_title \notin Range(st.titles[im].alt_titles)
                      THEN [st.titles EXCEPT ![im].alt_titles = Append(@, alt_title)]
                      ELSE st.titles
                norm_alt == normalize_title(alt_title)
            IN [titles |-> IF DictHas(t1, norm_alt) THEN t1
                           ELSE Append(t1, Entry(norm_alt, alt_title, <<>>)),
                current_main_title |-> cmt]
       ELSE st

(***************************************************************************)
(* read_csv_titles: the body of its loop over the rows after the header.   *)
(***************************************************************************)
csv_row(titles, row) ==
    IF row = <<>> THEN titles
    ELSE LET t == strip(row[1])
             alts == IF Len(row) > 1 /\ strip(row[2]) # <<>>
                     THEN <<strip(row[2])>> ELSE <<>>
         IN DictSet(titles, normalize_title(t), t, alts)

(***************************************************************************)
(* find_matching_titles                                                    *)
(***************************************************************************)
\* {norm} plus the normalized alternates of an entry
title_set(e) == {e.norm} \cup {normalize_title(alt) : alt \in Range(e.alt_titles)}

\* norm_to_lib[k]: the originals of the library entries that answer to k
\* (empty: k is not in norm_to_lib)
norm_to_lib(lib, k) == {lib[i].original : i \in {j \in 1..Len(lib) : k \in title_set(lib[j])}}

\* next(data for data in library_titles if data['original'] == o)
related_entry(lib, o) == lib[CHOOSE i \in 1..Len(lib) :
                               /\ lib[i].original = o
                               /\ \A j \in 1..(i - 1) : lib[j].original # o]

\* The inner loop also pairs a CSV title that is already in processed_matches.
candidates_unfiltered(lib_data, csv, processed) ==
    {j \in 1..Len(csv) : title_set(lib_data) \cap title_set(csv[j]) # {}}

\* The CSV entries the inner loop does not skip and finds overlapping
candidates(lib_data, csv, processed) ==
    {j \in 1..Len(csv) : /\ csv[j].original \notin processed
                         /\ title_set(lib_data) \cap title_set(csv[j]) # {}}

\* The inner loop leaves at the last overlapping CSV entry, not the first.
chosen_last(lib_data, csv, processed) ==
    CHOOSE j \in candidates(lib_data, csv, processed) :
        \A k \in candidates(lib_data, csv, processed) : k <= j

\* The CSV entry at which the inner loop breaks
chosen(lib_data, csv, processed) ==
    CHOOSE j \in candidates(lib_data, csv, processed) :
        \A k \in candidates(lib_data, csv, processed) : j <= k

match_info(lib, lib_data, csv_data) ==
    LET norms == title_set(lib_data) \cup title_set(csv_data)
        related == UNION {norm_to_lib(lib, n) : n \in norms}
        all_lib_titles == {lib_data.original} \cup related
        all_lib_alt_titles ==
            Range(lib_data.alt_titles)
            \cup UNION {Range(related_entry(lib, o).alt_titles) : o \in related}
    IN [library_title |-> lib_data.original,
        library_alt_titles |-> sorted(all_lib_alt_titles \ all_lib_titles),
        csv_title |-> csv_data.original,
        csv_alt_titles |-> csv_data.alt_titles]

(***************************************************************************)
(* The files manga_compare.main reads.                                     *)
(***************************************************************************)
MaxLibLines == 2
MaxCsvRows == 2

tx == <<"x">>
tThex == <<"T","h","e"," ","x">>
ty == <<"y">>

AltHeading == <<"A","l","t","e","r","n","a","t","i","v","e"," ",
                "T","i","t","l","e","s",":">>

LibLines ==
    {MainPrefix \o <<" ">> \o t : t \in {tx, tThex, ty}}
    \cup {BulletPrefix \o t : t \in {tx, ty}}
    \cup {AltHeading}

CsvHeader == << <<"T","i","t","l","e">> >>

CsvRows == { <<>>, <<tx>>, <<tThex>>, <<ty>>, <<tx, ty>>, <<tx, tx>>, << <<" ", "y">>, <<" ">> >> }

SeqsUpTo(S, n) == UNION { [1..k -> S] : k \in 0..n }

LibFiles == {NoFile} \cup {File(ls) : ls \in SeqsUpTo(LibLines, MaxLibLines)}

CsvFiles ==
    {NoFile, File(<<>>)}
    \cup {File(<<CsvHeader>> \o rows) : rows \in SeqsUpTo(CsvRows, MaxCsvRows)}

CmpInit ==
    /\ library_file \in LibFiles
    /\ csv_file \in CsvFiles
    /\ library_titles = <<>>
    /\ current_main_title = None
    /\ li = 0
    /\ csv_titles = <<>>
    /\ ri = 0
    /\ matches = <<>>
    /\ processed_matches = {}
    /\ mi = 0
    /\ pc = "read_library"
    /\ NormIdle
    /\ ParIdle

\* read_library_titles: one line of the file
ReadLibraryLine ==
    /\ pc = "read_library"
    /\ library_file.found
    /\ li < Len(library_file.lines)
    /\ LET st == library_line([titles |-> library_titles,
                               current_main_title |-> current_main_title],
                              library_file.lines[li + 1])
       IN /\ library_titles' = st.titles
          /\ current_main_title' = st.current_main_title
    /\ li' = li + 1
    /\ UNCHANGED <<library_file, csv_file, csv_titles, ri, matches,
                   processed_matches, mi, pc, nvars, pvars>>

\* read_library_titles returns: titles, or {} when the file is not found
ReturnLibrary ==
    /\ pc = "read_library"
    /\ library_file.found => li = Len(library_file.lines)
    /\ pc' = "read_csv"
    /\ current_main_title' = None
    /\ UNCHANGED <<library_file, csv_file, library_titles, li, csv_titles, ri,
                   matches, processed_matches, mi, nvars, pvars>>

\* The rows after the header; none when the file is missing or has no header
\* (next(csv_reader) raises, and the function returns {})
DataRows(f) == IF ~f.found \/ f.lines = <<>> THEN <<>> ELSE Tail(f.lines)

\* read_csv_titles: one row
ReadCsvRow ==
    /\ pc = "read_csv"
    /\ ri < Len(DataRows(csv_file))
    /\ csv_titles' = csv_row(csv_titles, DataRows(csv_file)[ri + 1])
    /\ ri' = ri + 1
    /\ UNCHANGED <<library_file, csv_file, library_titles, current_main_title,
                   li, matches, processed_matches, mi, pc, nvars, pvars>>

\* read_csv_titles returns, and main gives up when either dict is empty
ReturnCsv ==
    /\ pc = "read_csv"
    /\ ri = Len(DataRows(csv_file))
    /\ pc' = IF library_titles = <<>> \/ csv_titles = <<>> THEN "done" ELSE "match"
    /\ UNCHANGED <<library_file, csv_file, library_titles, current_main_title,
                   li, csv_titles, ri, matches, processed_matches, mi, nvars, pvars>>

\* find_matching_titles: one iteration of the loop over library_titles
MatchEntry ==
    /\ pc = "match"
    /\ mi < Len(library_titles)
    /\ mi' = mi + 1
    /\ LET lib_data == library_titles[mi + 1]
       IN IF candidates(lib_data, csv_titles, processed_matches) = {}
          THEN UNCHANGED <<matches, processed_matches>>
          ELSE LET csv_data == csv_titles[chosen(lib_data, csv_titles, processed_matches)]
               IN /\ matches' = Append(matches, match_info(library_titles, lib_data, csv_data))
                  /\ processed_matches' = processed_matches \cup {csv_data.original}
    /\ UNCHANGED <<library_file, csv_file, library_titles, current_main_title,
                   li, csv_titles, ri, pc, nvars, pvars>>

\* find_matching_titles returns matches
ReturnMatches ==
    /\ pc = "match"
    /\ mi = Len(library_titles)
    /\ pc' = "done"
    /\ UNCHANGED <<library_file, csv_file, library_titles, current_main_title,
                   li, csv_titles, ri, matches, processed_matches, mi, nvars, pvars>>

CmpNext ==
    \/ ReadLibraryLine
    \/ ReturnLibrary
    \/ ReadCsvRow
    \/ ReturnCsv
    \/ MatchEntry
    \/ ReturnMatches

Spec == CmpInit /\ [][CmpNext]_vars

(***************************************************************************)
(* The catalogs as the two files state them.                               *)
(***************************************************************************)
Record(m, a) == [main_title |-> m, aliases |-> a]

IsMainLine(l) == startswith(strip(l), MainPrefix)

MainText(l) == strip(SliceFrom(strip(l), Len(MainPrefix)))

\* A bullet line: the bullet and a space, after the line's indentation
IsBulletLine(l) == startswith(lstrip(l), <<Bullet, " ">>)

BulletText(l) == strip(SliceFrom(lstrip(l), 2))

\* One Title Record per 'Main Title:' line, with the bullets that follow it
RECURSIVE FileRecords(_)
FileRecords(ls) ==
    IF ls = <<>> THEN <<>>
    ELSE LET recs == FileRecords(SubSeq(ls, 1, Len(ls) - 1))
             l == ls[Len(ls)]
             n == Len(recs)
         IN IF IsMainLine(l) THEN Append(recs, Record(MainText(l), <<>>))
            ELSE IF /\ IsBulletLine(l)
                    /\ n > 0
                    /\ BulletText(l) # recs[n].main_title
                    /\ BulletText(l) \notin Range(recs[n].aliases)
            THEN [recs EXCEPT ![n].aliases = Append(@, BulletText(l))]
            ELSE recs

\* One Title Record per non-empty data row
RECURSIVE RowRecords(_)
RowRecords(rows) ==
    IF rows = <<>> THEN <<>>
    ELSE LET recs == RowRecords(SubSeq(rows, 1, Len(rows) - 1))
             row == rows[Len(rows)]
         IN IF row = <<>> THEN recs
            ELSE Append(recs, Record(strip(row[1]),
                                     IF Len(row) > 1 /\ strip(row[2]) # <<>>
                                     THEN <<strip(row[2])>> ELSE <<>>))

\* A dict read as a catalog of Title Records
Catalog(d) == [i \in 1..Len(d) |-> Record(d[i].original, d[i].alt_titles)]

KeySet(r) == {normalize_title(r.main_title)}
             \cup {normalize_title(a) : a \in Range(r.aliases)}

LibraryRecords == FileRecords(library_file.lines)
ReferenceRecords == RowRecords(DataRows(csv_file))

MatchesOf(t) == {k \in 1..Len(matches) : matches[k].library_title = t}

LibEntryOf(t) == CHOOSE e \in Range(library_titles) : e.original = t

\* The CSV entries whose title set meets that of a library entry
Overlapping(e) == {j \in 1..Len(csv_titles) : title_set(e) \cap title_set(csv_titles[j]) # {}}

Min(S) == CHOOSE j \in S : \A k \in S : j <= k

(***************************************************************************)
(* C1: when the comparison has run, every library record of the file (a    *)
(* 'Main Title:' line with its bullets) whose key set meets the key set of *)
(* a reference row has exactly one Match, and every other record none.     *)
(***************************************************************************)
C1_OneMatchPerIntersectingRecord ==
    pc = "done" =>
        \A t \in {r.main_title : r \in Range(LibraryRecords)} :
            Cardinality(MatchesOf(t)) =
                Cardinality({i \in 1..Len(LibraryRecords) :
                    /\ LibraryRecords[i].main_title = t
                    /\ \E r \in Range(ReferenceRecords) :
                           KeySet(LibraryRecords[i]) \cap KeySet(r) # {}})

(***************************************************************************)
(* C2 as stated: the reference entry of a Match is the first one met when  *)
(* going through the library entry's keys (main title, then the aliases in *)
(* list order) and, within a key, through the reference entries in order.  *)
(***************************************************************************)
KeysInOrder(e) == <<e.norm>> \o [i \in 1..Len(e.alt_titles) |-> normalize_title(e.alt_titles[i])]

Answering(k) == {j \in 1..Len(csv_titles) : k \in title_set(csv_titles[j])}

FirstByKeyOrder(e) ==
    LET ks == KeysInOrder(e)
        i == Min({n \in 1..Len(ks) : Answering(ks[n]) # {}})
    IN Min(Answering(ks[i]))

TakenBefore(k) == {matches[h].csv_title : h \in 1..(k - 1)}

C5_AliasesExcludeMainTitles ==
    \A k \in 1..Len(matches) :
        {matches[k].library_title, matches[k].csv_title}
        \cap (Range(matches[k].library_alt_titles) \cup Range(matches[k].csv_alt_titles)) = {}

(***************************************************************************)
(* C6: the library_title of a Match is the text of a 'Main Title:' line of *)
(* the library file, never a title the file has only as a bullet, and its  *)
(* csv_title is the first column of a data row.                            *)
(***************************************************************************)
MainTexts == {MainText(l) : l \in {x \in Range(library_file.lines) : IsMainLine(x)}}

BulletOnlyTexts ==
    {BulletText(l) : l \in {x \in Range(library_file.lines) : IsBulletLine(x)}} \ MainTexts

C7_LibraryRecordsAsInFile ==
    pc # "idle" =>
        Catalog(library_titles) = FileRecords(SubSeq(library_file.lines, 1, li))

(***************************************************************************)
(* C8: while and after the CSV file is read, the titles read so far are    *)
(* one Title Record per non-empty data row, in row order.                  *)
(***************************************************************************)
C8_OneRecordPerRow ==
    pc # "idle" =>
        Catalog(csv_titles) = RowRecords(SubSeq(DataRows(csv_file), 1, ri))

(***************************************************************************)
(* C10: no two Matches have the same csv_title, and processed_matches is   *)
(* the set of the csv_titles matched so far.                               *)
(***************************************************************************)
C10_ReferenceMatchedOnce ==
    /\ \A i, j \in 1..Len(matches) :
           i # j => matches[i].csv_title # matches[j].csv_title
    /\ processed_matches = {matches[k].csv_title : k \in 1..Len(matches)}

\* A library entry went without a Match although a reference entry
\* overlaps it: that entry had been paired before.
C10_Witness ==
    /\ pc = "done"
    /\ \E i \in 1..Len(library_titles) :
           /\ MatchesOf(library_titles[i].original) = {}
           /\ Overlapping(library_titles[i]) # {}
           /\ \A j \in Overlapping(library_titles[i]) :
                  csv_titles[j].original \in processed_matches

(***************************************************************************)
(* Titles given to normalize_title: up to MaxPieces pieces in a row.       *)
(***************************************************************************)
MaxPieces == 3

Pieces == { <<" ">>,
            <<"T","h","e"," ">>,
            <<"a"," ">>,
            <<"A","n"," ">>,
            <<"A","n">>,
            <<"o","t","h","e","r"," ","T","a","l","e">>,
            <<"M","a","t","r","i","x">> }

RECURSIVE Concat(_)
Concat(ps) == IF ps = <<>> THEN <<>> ELSE Head(ps) \o Concat(Tail(ps))

NormInputs ==
    { Concat(ps) : ps \in UNION { [1..n -> Pieces] : n \in 0..MaxPieces } }

NormInit ==
    /\ title \in NormInputs
    /\ key = None
    /\ key2 = None
    /\ npc = "start"
    /\ CmpIdle
    /\ ParIdle

\* key = normalize_title(title)
Normalize ==
    /\ npc = "start"
    /\ key' = normalize_title(title)
    /\ npc' = "once"
    /\ UNCHANGED <<title, key2, cvars, pvars>>

\* key2 = normalize_title(key)
Renormalize ==
    /\ npc = "once"
    /\ key2' = normalize_title(key)
    /\ npc' = "twice"
    /\ UNCHANGED <<title, key, cvars, pvars>>

NormNext == Normalize \/ Renormalize

SpecNorm == NormInit /\ [][NormNext]_vars

(***************************************************************************)
(* C3 as stated: normalize_title applied to its own result changes         *)
(* nothing.                                                                *)
(***************************************************************************)
C3_Idempotent == npc = "twice" => key2 = key

(***************************************************************************)
(* C3 amended: normalize_title applied to its own result changes nothing   *)
(* when that result starts neither with white space nor with an article    *)
(* ("the ", "a ", "an ").                                                  *)
(***************************************************************************)
StartsWithArticle(s) ==
    startswith(s, ArtThe) \/ startswith(s, ArtA) \/ startswith(s, ArtAn)

StartsAgain(s) == StartsWithArticle(s) \/ (s # <<>> /\ IsSpace(Head(s)))

C3_IdempotentOnceStripped ==
    (npc = "twice" /\ ~StartsAgain(key)) => key2 = key

\* A title that lost an article, normalized a second time with no change
C3_Witness ==
    /\ npc = "twice"
    /\ key # strip(lower(title))
    /\ ~StartsAgain(key)
    /\ key2 = key

(***************************************************************************)
(* C4: normalize_title returns the trimmed, lower-cased title without its  *)
(* leading article, if it has one, and nothing else removed: a second      *)
(* article stays ("The The Matrix" gives "the matrix") and so does a word  *)
(* that only begins like an article ("Another Tale" gives "another tale"). *)
(***************************************************************************)
TheTheMatrix == <<"T","h","e"," ","T","h","e"," ","M","a","t","r","i","x">>
AnotherTale == <<"A","n","o","t","h","e","r"," ","T","a","l","e">>

C4_AtMostOneArticle ==
    npc \in {"once", "twice"} =>
        LET t == strip(lower(title))
        IN /\ \E art \in {<<>>, ArtThe, ArtA, ArtAn} :
                  /\ t = art \o key
                  /\ art = <<>> <=> ~StartsWithArticle(t)
           /\ title = TheTheMatrix => key = SliceFrom(lower(TheTheMatrix), 4)
           /\ title = AnotherTale => key = lower(AnotherTale)

\* "The The Matrix" normalized: one article gone, the second kept
C4_Witness ==
    /\ npc = "once"
    /\ title = TheTheMatrix
    /\ key = <<"t","h","e"," ","m","a","t","r","i","x">>

(***************************************************************************)
(* manga_parser.py.  The titles of an export are not transformed by the    *)
(* script: a title is an atom here.  A JSON object is a sequence of        *)
(* [lang, text] members in document order.                                 *)
(***************************************************************************)
Member(l, t) == [lang |-> l, text |-> t]

\* manga_data: whether it has "attributes", the "title" object and the
\* "altTitles" array of the attributes (empty when the key is absent)
MangaData(a, t, alts) == [attributes |-> a, title |-> t, altTitles |-> alts]

\* The texts of a list in order, first occurrences only
RECURSIVE dedup(_)
dedup(ts) ==
    IF ts = <<>> THEN <<>>
    ELSE LET front == dedup(SubSeq(ts, 1, Len(ts) - 1))
         IN IF ts[Len(ts)] \in Range(front) THEN front
            ELSE Append(front, ts[Len(ts)])

RECURSIVE flatten(_)
flatten(objs) ==
    IF objs = <<>> THEN <<>>
    ELSE [i \in 1..Len(Head(objs)) |-> Head(objs)[i].text] \o flatten(Tail(objs))

\* Returns [found, entry]: found is FALSE where the function returns None
extract_manga_titles(manga_data) ==
    LET t == manga_data.title
        main_en ==
            IF ~manga_data.attributes \/ t = <<>> THEN "None"
            ELSE IF \E i \in 1..Len(t) : t[i].lang = "en"
            THEN t[CHOOSE i \in 1..Len(t) : t[i].lang = "en"].text
            ELSE t[1].text
        alt_titles == IF manga_data.attributes
                      THEN dedup(flatten(manga_data.altTitles)) ELSE <<>>
    IN [found |-> main_en \notin {"None", ""} \/ alt_titles # <<>>,
        entry |-> [main_en |-> main_en, alt_titles |-> alt_titles]]

RECURSIVE entries_of(_)
entries_of(data) ==
    IF data = <<>> THEN <<>>
    ELSE LET e == extract_manga_titles(Head(data))
         IN (IF e.found THEN <<e.entry>> ELSE <<>>) \o entries_of(Tail(data))

\* [] for a missing file, invalid JSON (an empty file too) and JSON without
\* a "data" array
parse_manga_file(file) ==
    IF file.kind = "data" THEN entries_of(file.data) ELSE <<>>

\* The lines of an entry in my_library.txt
format_manga_entry(entry) ==
    LET NotMain(t) == t # entry.main_en
        alts == SelectSeq(entry.alt_titles, NotMain)
    IN (IF entry.main_en \notin {"None", ""}
        THEN << <<"Main Title: ", entry.main_en>> >> ELSE <<>>)
       \o (IF entry.alt_titles # <<>>
           THEN << <<"Alternative Titles:">> >>
                \o [i \in 1..Len(alts) |-> <<"  U+2022 ", alts[i]>>]
           ELSE <<>>)

\* The batch save_to_library appends: the first n entries, and whether the
\* closing rule was written
Batch(manga_entries_, n, closed) ==
    [entries |-> [i \in 1..n |-> format_manga_entry(manga_entries_[i])],
     closed |-> closed]

\* main archives whatever save_to_library returned.
after_save_always(ok) == "ensure_dir"

\* main: archive_processed_files after a successful save only
after_save(ok) == IF ok THEN "ensure_dir" ELSE "done"

(***************************************************************************)
(* The exports manga_parser.main finds in mangas.json.                     *)
(***************************************************************************)
MaxMangas == 2

Mangas ==
    { MangaData(FALSE, <<>>, <<>>),
      MangaData(TRUE, <<>>, <<>>),
      MangaData(TRUE, <<Member("en", "X")>>, <<>>),
      MangaData(TRUE, <<Member("ja", "Y"), Member("en", "X")>>,
                << <<Member("ja", "Y")>>, <<Member("en", "X")>> >>),
      MangaData(TRUE, <<Member("ja", "Y")>>,
                << <<Member("ja", "Y")>>, <<Member("ja", "Y")>> >>),
      MangaData(TRUE, <<>>, << <<Member("ko", "Z")>> >>) }

JsonFiles ==
    {[kind |-> k, data |-> <<>>] : k \in {"missing", "invalid", "empty", "nodata"}}
    \cup {[kind |-> "data", data |-> d] : d \in SeqsUpTo(Mangas, MaxMangas)}

CopyFiles == {"mangas copy.json", "Mangas Copy 2.json"}

ParInit ==
    /\ mangas_json \in JsonFiles
    /\ cwd_copies \in SUBSET CopyFiles
    /\ archive_dir \in BOOLEAN
    /\ archives = {}
    /\ my_library = <<>>
    /\ manga_entries = <<>>
    /\ saved = "None"
    /\ archive_error = FALSE
    /\ ppc = "parse"
    /\ NormIdle
    /\ CmpIdle

\* main: manga_entries = parse_manga_file('mangas.json')
ParseFile ==
    /\ ppc = "parse"
    /\ manga_entries' = parse_manga_file(mangas_json)
    /\ ppc' = IF manga_entries' # <<>> THEN "save" ELSE "done"
    /\ UNCHANGED <<mangas_json, cwd_copies, archive_dir, archives, my_library,
                   saved, archive_error, nvars, cvars>>

\* save_to_library: the batch is appended, or open() fails, or a write fails
\* after n entries
SaveToLibrary ==
    /\ ppc = "save"
    /\ \E outcome \in {"ok", "open_failed", "write_failed"} :
         /\ CASE outcome = "ok" ->
                   my_library' = Append(my_library,
                                        Batch(manga_entries, Len(manga_entries), TRUE))
              [] outcome = "open_failed" -> my_library' = my_library
              [] outcome = "write_failed" ->
                   \E n \in 0..(Len(manga_entries) - 1) :
                       my_library' = Append(my_library, Batch(manga_entries, n, FALSE))
         /\ saved' = IF outcome = "ok" THEN "True" ELSE "False"
         /\ ppc' = after_save(outcome = "ok")
    /\ UNCHANGED <<mangas_json, cwd_copies, archive_dir, archives,
                   manga_entries, archive_error, nvars, cvars>>

\* ensure_archive_dir: os.makedirs when the directory is missing; it is
\* called outside the try block, so its exception ends the run
EnsureArchiveDir ==
    /\ ppc = "ensure_dir"
    /\ \E ok \in (IF archive_dir THEN {TRUE} ELSE BOOLEAN) :
         IF ok
         THEN archive_dir' = TRUE /\ ppc' = "move"
         ELSE archive_dir' = archive_dir /\ ppc' = "raised"
    /\ UNCHANGED <<mangas_json, cwd_copies, archives, my_library,
                   manga_entries, saved, archive_error, nvars, cvars>>

\* shutil.move(processed_file, archive_path)
MoveProcessed ==
    /\ ppc = "move"
    /\ \E ok \in BOOLEAN :
         IF ok
         THEN /\ archives' = archives \cup {[name |-> "mangas.json", file |-> mangas_json]}
              /\ mangas_json' = [kind |-> "missing", data |-> <<>>]
              /\ ppc' = "related"
              /\ UNCHANGED archive_error
         ELSE /\ archive_error' = TRUE
              /\ ppc' = "done"
              /\ UNCHANGED <<archives, mangas_json>>
    /\ UNCHANGED <<cwd_copies, archive_dir, my_library, manga_entries, saved,
                   nvars, cvars>>

\* One *copy*.json file of the directory moved, in os.listdir's order
MoveRelated ==
    /\ ppc = "related"
    /\ \E f \in cwd_copies, ok \in BOOLEAN :
         IF ok
         THEN /\ archives' = archives \cup {[name |-> f, file |-> [kind |-> "copy", data |-> <<>>]]}
              /\ cwd_copies' = cwd_copies \ {f}
              /\ UNCHANGED <<archive_error, ppc>>
         ELSE /\ archive_error' = TRUE
              /\ ppc' = "done"
              /\ UNCHANGED <<archives, cwd_copies>>
    /\ UNCHANGED <<mangas_json, archive_dir, my_library, manga_entries, saved,
                   nvars, cvars>>

\* open('mangas.json', 'w').close()
ResetInput ==
    /\ ppc = "related"
    /\ cwd_copies = {}
    /\ \E ok \in BOOLEAN :
         IF ok
         THEN mangas_json' = [kind |-> "empty", data |-> <<>>] /\ UNCHANGED archive_error
         ELSE archive_error' = TRUE /\ UNCHANGED mangas_json
    /\ ppc' = "done"
    /\ UNCHANGED <<cwd_copies, archive_dir, archives, my_library, manga_entries,
                   saved, nvars, cvars>>

ParNext ==
    \/ ParseFile
    \/ SaveToLibrary
    \/ EnsureArchiveDir
    \/ MoveProcessed
    \/ MoveRelated
    \/ ResetInput

SpecParser == ParInit /\ [][ParNext]_vars

\* The run is over: main returned, or ensure_archive_dir raised
RunEnded == ppc \in {"done", "raised"}

\* mangas.json, as it was parsed, is in the archives directory
Archived == \E a \in archives : a.name = "mangas.json" /\ a.file.kind = "data"

\* mangas.json is an empty file
Reset == mangas_json.kind = "empty"

\* No step changes a file of the directory unless save_to_library returned True
ArchivedOnlyAfterSave ==
    saved' # "True" => UNCHANGED <<mangas_json, archives, cwd_copies>>

ArchivingFailed == archive_error \/ ppc = "raised"

====
